---- MODULE Spec2Model ----
(***************************************************************************)
(* Model of src/main.rs: the lexer (lex, determine_kind, is_hex,           *)
(* trim_newlines) and the parser (parse) of the toy `let <name> be <value>`*)
(* language.  A string is a sequence of one-character strings; the        *)
(* alphabet is ASCII, so byte indices and character indices coincide.      *)
(***************************************************************************)
EXTENDS Integers, Sequences, FiniteSets, TLC

VARIABLES text, pos, curr, col, start, tokens, call, t_id, hash, last_key, pc

vars == <<text, pos, curr, col, start, tokens, call, t_id, hash, last_key, pc>>

(***************************************************************************)
(* Bounds of the checked inputs.                                           *)
(***************************************************************************)
MaxLen == 4
MaxWords == 3
MaxTokens == 4

(***************************************************************************)
(* Program constants.                                                      *)
(***************************************************************************)
U16Mod == 65536

KEYWORDS == << <<"l", "e", "t">>, <<"b", "e">>, <<"f", "n">> >>

OPERATORS == << <<"=">>, <<"+">>, <<"-">>, <<"(">>, <<")">> >>

Digits == {"0", "1", "2", "3", "4", "5", "6", "7", "8", "9"}

HexDigits == Digits \cup {"a", "b", "c", "d", "e", "f", "A", "B", "C", "D", "E", "F"}

(***************************************************************************)
(* Sequence helpers.                                                       *)
(***************************************************************************)
SeqsUpTo(S, n) == UNION {[1..k -> S] : k \in 0..n}

Drop(s, n) == SubSeq(s, n + 1, Len(s))

Last(s) == s[Len(s)]

Front(s) == SubSeq(s, 1, Len(s) - 1)

ends_with(s, ch) == Len(s) > 0 /\ Last(s) = ch

InSeq(x, s) == \E i \in 1..Len(s) : s[i] = x

Lower(ch) ==
    CASE ch = "I" -> "i" [] ch = "N" -> "n" [] ch = "F" -> "f" [] ch = "T" -> "t"
      [] ch = "Y" -> "y" [] ch = "A" -> "a" [] ch = "E" -> "e" [] OTHER -> ch

LowerSeq(s) == [i \in 1..Len(s) |-> Lower(s[i])]

(***************************************************************************)
(* trim_newlines: while the string ends in \n or \r, pop one trailing \n   *)
(* if there is one, then pop one trailing \r if there is one.              *)
(***************************************************************************)
TrimPass(s) ==
    LET s1 == IF ends_with(s, "\n") THEN Front(s) ELSE s
    IN  IF ends_with(s1, "\r") THEN Front(s1) ELSE s1

\* a single pass instead of the while loop
trim_newlines_once(s) == TrimPass(s)

RECURSIVE trim_newlines(_)
trim_newlines(s) ==
    IF ends_with(s, "\n") \/ ends_with(s, "\r")
    THEN trim_newlines(TrimPass(s))
    ELSE s

(***************************************************************************)
(* token.parse::<f64>().is_ok(): the grammar of f64::from_str,             *)
(*   [+-]? ( inf | infinity | nan | Number ),                              *)
(*   Number = (Digit+ | Digit+ '.' Digit* | Digit* '.' Digit+) Exp?,       *)
(*   Exp = [eE] [+-]? Digit+.                                              *)
(***************************************************************************)
AllDigits(s) == \A i \in 1..Len(s) : s[i] \in Digits

IsSign(ch) == ch \in {"+", "-"}

StripSign(s) == IF Len(s) > 0 /\ IsSign(s[1]) THEN Tail(s) ELSE s

IsMantissa(m) ==
    LET dots == {i \in 1..Len(m) : m[i] = "."}
    IN  /\ Cardinality(dots) <= 1
        /\ \A i \in 1..Len(m) : m[i] \in Digits \cup {"."}
        /\ \E i \in 1..Len(m) : m[i] \in Digits

IsExponent(e) ==
    LET d == StripSign(e) IN Len(d) > 0 /\ AllDigits(d)

IsNumber(s) ==
    LET es == {i \in 1..Len(s) : s[i] \in {"e", "E"}}
    IN  IF es = {}
        THEN IsMantissa(s)
        ELSE LET k == CHOOSE i \in es : \A j \in es : i <= j
             IN  IsMantissa(SubSeq(s, 1, k - 1)) /\ IsExponent(Drop(s, k))

ParsesAsF64(s) ==
    LET u == StripSign(s)
    IN  \/ LowerSeq(u) \in { <<"i", "n", "f">>, <<"n", "a", "n">>,
                              <<"i", "n", "f", "i", "n", "i", "t", "y">> }
        \/ IsNumber(u)

(***************************************************************************)
(* is_hex: the slice word[2..] is taken first and aborts when the word has *)
(* fewer than two bytes; then every character from index 2 on must be a    *)
(* hexadecimal digit, and the word must start with '0' 'x'.                *)
(* Result: "panic" (the slice aborts), "true" or "false".                  *)
(***************************************************************************)
\* an is_hex that tests the length before it slices
is_hex_guarded(word) ==
    IF Len(word) < 2 THEN "false"
    ELSE IF \E i \in 3..Len(word) : word[i] \notin HexDigits THEN "false"
    ELSE IF word[1] = "0" /\ word[2] = "x" THEN "true" ELSE "false"

is_hex(word) ==
    IF Len(word) < 2 THEN "panic"
    ELSE IF \E i \in 3..Len(word) : word[i] \notin HexDigits THEN "false"
    ELSE IF Len(word) >= 2
         THEN (IF word[1] = "0" /\ word[2] = "x" THEN "true" ELSE "false")
         ELSE "false"

(***************************************************************************)
(* determine_kind: keyword, then operator, then numeric (f64 or hex, the   *)
(* hex test only evaluated when the f64 parse fails), then Word.           *)
(* "PANIC" stands for the call aborting instead of returning a kind.       *)
(***************************************************************************)
determine_kind(token) ==
    IF InSeq(token, KEYWORDS) THEN "Keyword"
    ELSE IF InSeq(token, OPERATORS) THEN "Operator"
    ELSE IF ParsesAsF64(token) THEN "Numeric"
    ELSE CASE is_hex(token) = "panic" -> "PANIC"
           [] is_hex(token) = "true"  -> "Numeric"
           [] OTHER                   -> "Word"

(***************************************************************************)
(* Data types: Pos, Token and the bindings map.                            *)
(***************************************************************************)
Pos(file, row, c) == [file |-> file, row |-> row, col |-> c]

Token(value, position, kind) == [value |-> value, position |-> position, kind |-> kind]

EmptyMap == [k \in {} |-> <<>>]

\* an insert that keeps the entry a key already has
insert_keep(m, k, v) == [x \in (DOMAIN m) \cup {k} |-> IF x \in DOMAIN m THEN m[x] ELSE v]

insert(m, k, v) == [x \in (DOMAIN m) \cup {k} |-> IF x = k THEN v ELSE m[x]]

(***************************************************************************)
(* Inputs.  A run either feeds a text to lex and its tokens to parse (as   *)
(* main does), or calls parse on a given token sequence.                   *)
(***************************************************************************)
Alphabet == {" ", "\n", "\r", "0", "5", "x", "b", "e", "="}

W_let == <<"l", "e", "t">>

W_be == <<"b", "e">>

W_fn == <<"f", "n">>

W_eq == <<"=">>

W_plus == <<"+">>

W_x == <<"x">>

W_y == <<"y">>

W_xx == <<"x", "x">>

W_yy == <<"y", "y">>

W_5 == <<"5">>

W_10 == <<"1", "0">>

Vocabulary == {W_let, W_be, W_fn, W_eq, W_plus, W_xx, W_yy, W_5}

RECURSIVE JoinWords(_)
JoinWords(ws) ==
    IF Len(ws) = 0 THEN <<>>
    ELSE IF Len(ws) = 1 THEN ws[1]
    ELSE ws[1] \o <<" ">> \o JoinWords(Tail(ws))

\* "let n be v"
Decl(n, v) == JoinWords(<<W_let, n, W_be, v>>)

DeclNames == {W_x, W_xx, W_yy, <<"i", "t">>, <<"h", "e", "x">>, <<"0", "x">>}

DeclValues == {W_5, W_10, W_x, W_xx, <<"0", "x", "f">>, <<"5", "\n">>, <<>>}

\* "let x be 5"
LetXBe5 == Decl(W_x, W_5)

\* "let x be 5 x = 10"
LetX5X10 == JoinWords(<<W_let, W_x, W_be, W_5, W_x, W_eq, W_10>>)

\* "let x be 5\nlet y be x"
TwoDecls == JoinWords(<<W_let, W_x, W_be, <<"5", "\n", "l", "e", "t">>, W_y, W_be, W_x>>)

\* "let xx be 5\nlet yy be xx"
TwoDeclsNewline == JoinWords(<<W_let, W_xx, W_be, <<"5", "\n", "l", "e", "t">>, W_yy, W_be, W_xx>>)

\* "let xx be 5\n let yy be xx"
TwoDeclsNewlineSpace == JoinWords(<<W_let, W_xx, W_be, <<"5", "\n">>, W_let, W_yy, W_be, W_xx>>)

\* the text main passes to lex
MainText ==
    JoinWords(<< W_let, <<"i", "t">>, W_be,
                 <<"0", ".", "6", "5", "4", "8", "7", "6", "4", "1", "8", "7", "6",
                   "8", "5", "4", "7", "9", "4", "6", "\n">>,
                 <<"l", "e", "t", "\n", "\r">>, <<"h", "e", "x">>, W_be,
                 <<"0", "x", "f", "b", "0", "0", "b", "e", "l", "e", "t">>,
                 <<"a">>, W_be, <<"h", "e", "x">> >>)

\* "let xx be 5 let yy = let"
BindsLet == JoinWords(<<W_let, W_xx, W_be, W_5, W_let, W_yy, W_eq, W_let>>)

\* "be 5 let xx be 5 yy = 10"
StrayBinders == JoinWords(<<W_be, W_5, W_let, W_xx, W_be, W_5, W_yy, W_eq, W_10>>)

Scenarios ==
    {LetXBe5, LetX5X10, TwoDecls, TwoDeclsNewline, TwoDeclsNewlineSpace, MainText,
     BindsLet, StrayBinders}

Texts ==
    SeqsUpTo(Alphabet, MaxLen)
      \cup {JoinWords(ws) : ws \in SeqsUpTo(Vocabulary, MaxWords)}
      \cup {Decl(n, v) : n \in DeclNames, v \in DeclValues}
      \cup Scenarios

\* texts long enough for the u16 column counter to reach its limit: a first
\* segment of PadLen characters 'x', then a short tail
PadLen == U16Mod - 1

Pad == <<>> \o [i \in 1..PadLen |-> "x"]

LongTails == { <<"x">>, <<" ", "5">> }

LongTexts == {Pad \o tail : tail \in LongTails}

\* the tokens of the vocabulary, classified as lex classifies them
TokenShapes == {Token(w, Pos("", 0, 0), determine_kind(w)) : w \in Vocabulary}

TokenSeqs == SeqsUpTo(TokenShapes, MaxTokens)

(***************************************************************************)
(* State after construction: lex about to scan `text`, or parse about to   *)
(* run on `tokens`.                                                        *)
(***************************************************************************)
InitLex ==
    /\ text \in Texts
    /\ tokens = <<>>
    /\ pc = "lex"

InitParse ==
    /\ text = <<>>
    /\ tokens \in TokenSeqs
    /\ pc = "parse"

InitStart ==
    /\ InitLex \/ InitParse
    /\ pos = 0
    /\ curr = <<>>
    /\ col = 0
    /\ start = 0
    /\ call = <<>>
    /\ t_id = 0
    /\ hash = EmptyMap
    /\ last_key = <<>>

\* lex on a long text, taken up where the loop has consumed the PadLen
\* characters of the first segment (PadLen iterations of the non-space branch:
\* each adds 1 to col and appends the character to curr)
InitScanned ==
    /\ text \in LongTexts
    /\ tokens = <<>>
    /\ pc = "lex"
    /\ pos = PadLen
    /\ curr = Pad
    /\ col = PadLen
    /\ start = 0
    /\ call = <<>>
    /\ t_id = 0
    /\ hash = EmptyMap
    /\ last_key = <<>>

Init == InitStart \/ InitScanned

(***************************************************************************)
(* lex.  `call` holds the temporaries of the Token::make expression being  *)
(* evaluated: the buffer, its trimmed value and what determine_kind gave.  *)
(***************************************************************************)
MakeCall(buf) ==
    [raw |-> buf, value |-> trim_newlines(buf), kind |-> determine_kind(trim_newlines(buf))]

\* tokens.push(Token::make(...)): the push happens only if determine_kind returns
Push(buf) ==
    /\ call' = <<MakeCall(buf)>>
    /\ tokens' = IF MakeCall(buf).kind = "PANIC" THEN tokens
                 ELSE Append(tokens, Token(MakeCall(buf).value,
                                           Pos("main.rs", 0, start),
                                           MakeCall(buf).kind))

\* col += 1 on a u16 holding 65535: a build with overflow checks aborts here;
\* a build without them wraps to 0, which LexChar and LexSpace do
LexOverflow ==
    /\ pc = "lex"
    /\ pos < Len(text)
    /\ col + 1 >= U16Mod
    /\ pc' = "lex_panic"
    /\ UNCHANGED <<text, pos, curr, col, start, tokens, call, t_id, hash, last_key>>

\* loop body for a character other than ' '
LexChar ==
    /\ pc = "lex"
    /\ pos < Len(text)
    /\ text[pos + 1] # " "
    /\ pos' = pos + 1
    /\ col' = (col + 1) % U16Mod
    /\ curr' = Append(curr, text[pos + 1])
    /\ UNCHANGED <<text, start, tokens, call, t_id, hash, last_key, pc>>

\* loop body for ' ': finalize the buffer into a token
LexSpace ==
    /\ pc = "lex"
    /\ pos < Len(text)
    /\ text[pos + 1] = " "
    /\ pos' = pos + 1
    /\ col' = (col + 1) % U16Mod
    /\ Push(curr)
    /\ IF MakeCall(curr).kind = "PANIC"
       THEN pc' = "lex_panic" /\ UNCHANGED <<start, curr>>
       ELSE pc' = "lex" /\ start' = col' /\ curr' = <<>>
    /\ UNCHANGED <<text, t_id, hash, last_key>>

\* a lexer that forgets the token of the last segment
LexEnd_nopush ==
    /\ pc = "lex"
    /\ pos = Len(text)
    /\ call' = <<MakeCall(curr)>>
    /\ pc' = IF MakeCall(curr).kind = "PANIC" THEN "lex_panic" ELSE "parse"
    /\ UNCHANGED <<text, pos, curr, col, start, tokens, t_id, hash, last_key>>

\* after the loop: the last token, then the tokens go to parse
LexEnd ==
    /\ pc = "lex"
    /\ pos = Len(text)
    /\ Push(curr)
    /\ pc' = IF MakeCall(curr).kind = "PANIC" THEN "lex_panic" ELSE "parse"
    /\ UNCHANGED <<text, pos, curr, col, start, t_id, hash, last_key>>

(***************************************************************************)
(* parse.  pc = "parse" is the loop test, pc = "body" the match on the     *)
(* current token.                                                          *)
(***************************************************************************)
\* a loop bound computed with a saturating subtraction
ParseTest_saturating ==
    /\ pc = "parse"
    /\ pc' = IF t_id + 1 < Len(tokens) THEN "body" ELSE "done"
    /\ UNCHANGED <<text, pos, curr, col, start, tokens, call, t_id, hash, last_key>>

\* a loop that also takes the last token as the current one
ParseTest_all ==
    /\ pc = "parse"
    /\ pc' = IF Len(tokens) = 0 THEN "parse_panic"
             ELSE IF t_id < Len(tokens) THEN "body"
             ELSE "done"
    /\ UNCHANGED <<text, pos, curr, col, start, tokens, call, t_id, hash, last_key>>

\* tokens.len()-1 on an empty vector: the subtraction overflows, or it wraps
\* and tokens[0] is out of bounds; the call aborts either way
ParseTest ==
    /\ pc = "parse"
    /\ pc' = IF Len(tokens) = 0 THEN "parse_panic"
             ELSE IF t_id < Len(tokens) - 1 THEN "body"
             ELSE "done"
    /\ UNCHANGED <<text, pos, curr, col, start, tokens, call, t_id, hash, last_key>>

\* a `let` that accepts whatever token follows it
NotAWord_never(next_token) == FALSE

\* a check that rejects only a keyword after `let`
NotAWord_keyword(next_token) == next_token.kind = "Keyword"

\* next_token.kind != TokenKind::Word
NotAWord(next_token) == next_token.kind # "Word"

\* a binding that looks the value up among the bindings made so far
BoundValue_deref(h, next_token) ==
    IF next_token.value \in DOMAIN h THEN h[next_token.value] ELSE next_token.value

\* next_token.value.clone(): the value bound by `be` and `=`
BoundValue(h, next_token) == next_token.value

ParseBody ==
    /\ pc = "body"
    /\ LET curr_token == tokens[t_id + 1]
           next_token == tokens[t_id + 2]
           isLet == curr_token.kind = "Keyword" /\ curr_token.value = W_let
           isBe  == curr_token.kind = "Keyword" /\ curr_token.value = W_be
           isEq  == curr_token.kind = "Operator" /\ curr_token.value = W_eq
           skip  == curr_token.kind \notin {"Keyword", "Operator"}
       IN  IF isLet /\ NotAWord(next_token)
           THEN pc' = "parse_panic" /\ UNCHANGED <<t_id, hash, last_key>>
           ELSE /\ pc' = "parse"
                /\ t_id' = IF isLet \/ isBe \/ isEq THEN t_id + 2
                           ELSE IF skip THEN t_id + 1
                           ELSE t_id
                /\ last_key' = IF isLet THEN next_token.value ELSE last_key
                /\ hash' = IF isBe \/ isEq THEN insert(hash, last_key, BoundValue(hash, next_token))
                           ELSE hash
    /\ UNCHANGED <<text, pos, curr, col, start, tokens, call>>

Next == LexChar \/ LexSpace \/ LexOverflow \/ LexEnd \/ ParseTest \/ ParseBody

Spec == Init /\ [][Next]_vars

(***************************************************************************)
(* Vocabulary of the properties.                                           *)
(***************************************************************************)
\* lex was called in this run (the other runs call parse directly)
LexRan == pc \in {"lex", "lex_panic"} \/ Len(call) = 1

\* lex was called and has returned its tokens
LexReturned == pc \notin {"lex", "lex_panic"} /\ Len(call) = 1

IsLet(tok) == tok.kind = "Keyword" /\ tok.value = W_let

IsBinder(tok) ==
    \/ tok.kind = "Keyword" /\ tok.value = W_be
    \/ tok.kind = "Operator" /\ tok.value = W_eq

\* the maximal runs of non-space characters of t, in order
RECURSIVE Segments(_)
Segments(t) ==
    LET sp == {i \in 1..Len(t) : t[i] = " "}
    IN  IF sp = {} THEN <<t>>
        ELSE LET k == CHOOSE i \in sp : \A j \in sp : i <= j
             IN  <<SubSeq(t, 1, k - 1)>> \o Segments(Drop(t, k))

\* k >= 1 non-empty segments separated by single spaces
SingleSpaced(t) == \A i \in 1..Len(Segments(t)) : Segments(t)[i] # <<>>

IsHexLiteral(s) ==
    /\ Len(s) >= 2
    /\ s[1] = "0" /\ s[2] = "x"
    /\ \A i \in 3..Len(s) : s[i] \in HexDigits

\* the classification the specification describes, defined on every string
SpecKind(s) ==
    IF s \in {W_let, W_be, W_fn} THEN "Keyword"
    ELSE IF s \in {<<"=">>, <<"+">>, <<"-">>, <<"(">>, <<")">>} THEN "Operator"
    ELSE IF ParsesAsF64(s) \/ IsHexLiteral(s) THEN "Numeric"
    ELSE "Word"

\* the longest prefix of s that does not end in \n or \r
LongestCleanPrefix(s) ==
    LET m == CHOOSE k \in 0..Len(s) :
                 /\ k = 0 \/ s[k] \notin {"\n", "\r"}
                 /\ \A j \in (k + 1)..Len(s) : s[j] \in {"\n", "\r"}
    IN  SubSeq(s, 1, m)

(***************************************************************************)
(* C1: lex is total: for every text it returns a non-empty token sequence  *)
(* and never aborts.                                                       *)
(* Fails: classifying an empty or one-character non-numeric segment aborts *)
(* in is_hex.                                                              *)
(***************************************************************************)
LexIsTotal ==
    /\ pc # "lex_panic"
    /\ LexReturned => Len(tokens) >= 1

(***************************************************************************)
(* C2: every iteration of the parse loop strictly advances the cursor: by  *)
(* 2 for `let`, `be` and `=`, by 1 for every other token, among them       *)
(* an unmatched operator such as `+` and another keyword such as `fn`.     *)
(* Fails: `fn` and `+` leave the cursor where it is.                       *)
(***************************************************************************)
EveryIterationAdvances ==
    [][(pc = "body" /\ pc' = "parse") =>
          t_id' = t_id + (IF IsLet(tokens[t_id + 1]) \/ IsBinder(tokens[t_id + 1])
                          THEN 2 ELSE 1)]_vars

(***************************************************************************)
(* C3 as stated: parse aborts if and only if the sequence contains a `let` *)
(* keyword whose following token is not a Word.                            *)
(***************************************************************************)
ContainsLetBeforeNonWord(ts) ==
    \E i \in 1..(Len(ts) - 1) : IsLet(ts[i]) /\ ts[i + 1].kind # "Word"

AbortIffSequenceHasBadLet ==
    Len(tokens) > 0 =>
        /\ pc = "parse_panic" => ContainsLetBeforeNonWord(tokens)
        /\ pc = "done" => ~ContainsLetBeforeNonWord(tokens)

(***************************************************************************)
(* C3 amended: an iteration of parse aborts if and only if the token under *)
(* the cursor is the keyword `let` and the token after it is not a Word; a *)
(* `let` that the cursor never stops on (last token, or taken as the value *)
(* of a `be` or `=`) does not abort, nor does any `be` or `=`.             *)
(***************************************************************************)
AbortIffLetAtCursor ==
    [][pc = "body" =>
          ((pc' = "parse_panic") <=>
              (IsLet(tokens[t_id + 1]) /\ tokens[t_id + 2].kind # "Word"))]_vars

AbortIffLetAtCursorWitness ==
    /\ pc = "parse_panic"
    /\ Len(tokens) > 0
    /\ IsLet(tokens[t_id + 1])
    /\ tokens[t_id + 2].kind = "Numeric"

(***************************************************************************)
(* C4: for every name n that classifies as Word and every space-free value *)
(* v, lex then parse on "let n be v" returns exactly the mapping n -> v;   *)
(* in particular "let x be 5" gives x -> 5.                                *)
(* Fails: lex aborts on the one-character name "x".                        *)
(***************************************************************************)
DeclarationBindsName ==
    \A n \in DeclNames, v \in DeclValues :
        (LexRan /\ text = Decl(n, v) /\ SpecKind(n) = "Word" /\ v # <<>>) =>
            /\ pc \notin {"lex_panic", "parse_panic"}
            /\ pc = "done" => hash = (n :> v)

LastWriteWins ==
    /\ pc = "done" =>
          \A k \in DOMAIN hash :
              \E i \in 1..(Len(tokens) - 1) :
                  IsBinder(tokens[i]) /\ hash[k] = tokens[i + 1].value
    /\ (LexRan /\ text = LetX5X10) =>
          /\ pc \notin {"lex_panic", "parse_panic"}
          /\ pc = "done" => hash = (W_x :> W_10)

(***************************************************************************)
(* C7: on the empty text lex returns exactly one token, empty and of kind  *)
(* Word, and parse returns the empty mapping; whenever the text is empty   *)
(* or ends with a space the last token is empty and of kind Word.          *)
(* Fails: classifying the empty segment aborts.                            *)
(***************************************************************************)
EmptyTextGivesEmptyWord ==
    (LexRan /\ (text = <<>> \/ Last(text) = " ")) =>
        /\ pc # "lex_panic"
        /\ LexReturned =>
              /\ Last(tokens).value = <<>>
              /\ Last(tokens).kind = "Word"
              /\ text = <<>> => Len(tokens) = 1
        /\ (pc = "done" /\ text = <<>>) => hash = EmptyMap

(***************************************************************************)
(* C8 as stated: on k >= 1 non-empty segments separated by single spaces   *)
(* lex returns one token per segment plus one additional trailing token.   *)
(***************************************************************************)
OneTokenPerSegmentPlusOne ==
    (LexReturned /\ SingleSpaced(text)) =>
        Len(tokens) = Len(Segments(text)) + 1

(***************************************************************************)
(* C8 amended: on k >= 1 non-empty segments separated by single spaces the *)
(* tokens lex has emitted are, in source order, the trimmed first segments *)
(* (never more than k), and when lex returns there are exactly k tokens:   *)
(* the last segment's token is the trailing one, no token is added.        *)
(***************************************************************************)
OneTokenPerSegment ==
    (LexRan /\ SingleSpaced(text)) =>
        /\ Len(tokens) <= Len(Segments(text))
        /\ \A i \in 1..Len(tokens) :
              tokens[i].value = LongestCleanPrefix(Segments(text)[i])
        /\ LexReturned => Len(tokens) = Len(Segments(text))

OneTokenPerSegmentWitness ==
    /\ LexReturned
    /\ SingleSpaced(text)
    /\ Len(Segments(text)) >= 3
    /\ Len(tokens) = Len(Segments(text))

(***************************************************************************)
(* C9: determine_kind is total with a fixed priority: Keyword for          *)
(* let/be/fn, else Operator for = + - ( ), else Numeric for a float        *)
(* literal or 0x followed by zero or more hex digits, else Word; it        *)
(* returns a kind also for strings shorter than two characters.            *)
(* Fails: a string shorter than two characters that is no keyword,         *)
(* operator or float makes it abort.                                       *)
(***************************************************************************)
DetermineKindIsTotal ==
    \A i \in 1..Len(call) : call[i].kind = SpecKind(call[i].value)

(***************************************************************************)
(* C10: trim_newlines(s) is the longest prefix of s that does not end in   *)
(* \n or \r (interior ones are kept), and trimming twice equals trimming   *)
(* once.                                                                   *)
(***************************************************************************)
TrimNewlinesStripsTrailingRun ==
    \A i \in 1..Len(call) :
        /\ call[i].value = LongestCleanPrefix(call[i].raw)
        /\ trim_newlines(trim_newlines(call[i].raw)) = trim_newlines(call[i].raw)

TrimNewlinesWitness ==
    \E i \in 1..Len(call) :
        /\ Len(call[i].raw) >= Len(call[i].value) + 2
        /\ \E j \in 1..(Len(call[i].value) - 1) : call[i].value[j] \in {"\n", "\r"}

(***************************************************************************)
(* C11: a binding step.  When the token under the cursor is the keyword    *)
(* `be` or the operator `=`, parse maps last_key to the value of the next  *)
(* token whatever its kind, moves the cursor by 2 (so the next token is    *)
(* never taken as a statement, even if it is `let`), and leaves last_key   *)
(* and every other entry of the mapping unchanged.                         *)
(***************************************************************************)
BindingStepEffect ==
    [][(pc = "body" /\ IsBinder(tokens[t_id + 1])) =>
          /\ pc' = "parse"
          /\ t_id' = t_id + 2
          /\ last_key' = last_key
          /\ DOMAIN hash' = (DOMAIN hash) \cup {last_key}
          /\ hash'[last_key] = tokens[t_id + 2].value
          /\ \A k \in (DOMAIN hash) \ {last_key} : hash'[k] = hash[k]]_vars

BindingStepEffectWitness ==
    /\ pc = "parse"
    /\ t_id >= 2
    /\ IsBinder(tokens[t_id - 1])
    /\ IsLet(tokens[t_id])
    /\ last_key \in DOMAIN hash
    /\ hash[last_key] = W_let
    /\ Cardinality(DOMAIN hash) >= 2

(***************************************************************************)
(* The iterations parse runs: Stops(ts, i) is the set of cursor values     *)
(* (counted from 0) at which an iteration starts once the cursor is i.     *)
(***************************************************************************)
RECURSIVE Stops(_, _)
Stops(ts, i) ==
    IF i >= Len(ts) - 1 THEN {}
    ELSE {i} \cup
         ( IF IsLet(ts[i + 1])
           THEN (IF ts[i + 2].kind = "Word" THEN Stops(ts, i + 2) ELSE {})
           ELSE IF IsBinder(ts[i + 1]) THEN Stops(ts, i + 2)
           ELSE IF ts[i + 1].kind \in {"Word", "Numeric"} THEN Stops(ts, i + 1)
           ELSE {} )

\* cursor values of the `let` iterations completed so far
ExecutedLets == {i \in Stops(tokens, 0) : i < t_id /\ IsLet(tokens[i + 1])}

\* cursor values of the `be` and `=` iterations completed so far
ExecutedBinders == {i \in Stops(tokens, 0) : i < t_id /\ IsBinder(tokens[i + 1])}

(***************************************************************************)
(* C12: provenance of keys.  In every parser state each key of the mapping *)
(* is the empty string or the value of a Word token that immediately       *)
(* followed an executed `let`; the empty key is present exactly when a     *)
(* `be` or `=` was executed before any `let`; the word written before an   *)
(* `=` is a key only if a `let` declared it; and a `let` step changes only *)
(* last_key and the cursor.                                                *)
(***************************************************************************)
KeysComeFromLet ==
    /\ \A k \in DOMAIN hash :
          \/ k = <<>>
          \/ \E i \in ExecutedLets :
                tokens[i + 2].kind = "Word" /\ tokens[i + 2].value = k
    /\ (<<>> \in DOMAIN hash) <=>
          (\E j \in ExecutedBinders : \A i \in ExecutedLets : j < i)
    /\ \A j \in ExecutedBinders :
          (j >= 1 /\ tokens[j + 1].value = W_eq /\ tokens[j].value \in DOMAIN hash) =>
              \/ tokens[j].value = <<>>
              \/ \E i \in ExecutedLets : tokens[i + 2].value = tokens[j].value

LetStepEffect ==
    (pc = "body" /\ IsLet(tokens[t_id + 1]) /\ pc' = "parse") =>
        /\ hash' = hash
        /\ t_id' = t_id + 2
        /\ last_key' = tokens[t_id + 2].value
        /\ tokens' = tokens

ProvenanceOfKeys == [](KeysComeFromLet) /\ [][LetStepEffect]_vars

ProvenanceOfKeysWitness ==
    /\ pc = "done"
    /\ DOMAIN hash = {<<>>, W_xx}
    /\ ExecutedLets # {}
    /\ \E j \in ExecutedBinders :
          j >= 1 /\ tokens[j + 1].value = W_eq /\ tokens[j].value = W_yy

(***************************************************************************)
(* C13: the final token is never the current token.  In every iteration    *)
(* the cursor i satisfies i + 1 <= length - 1, so tokens[i] and            *)
(* tokens[i+1] are in bounds, and a `let`, `be` or `=` at the last index   *)
(* causes neither a fatal error nor a binding.                             *)
(***************************************************************************)
FinalTokenNeverCurrent ==
    /\ pc = "body" => t_id + 1 <= Len(tokens) - 1
    /\ (pc = "parse_panic" /\ Len(tokens) > 0) => t_id + 1 <= Len(tokens) - 1
    /\ (Len(tokens) - 1) \notin ExecutedLets \cup ExecutedBinders
    /\ (pc = "done" /\ Len(tokens) = 1) => hash = EmptyMap

FinalTokenNeverCurrentWitness ==
    /\ pc = "done"
    /\ Len(tokens) >= 2
    /\ t_id = Len(tokens) - 1
    /\ IsLet(Last(tokens)) \/ IsBinder(Last(tokens))
    /\ hash = EmptyMap

RECURSIVE SegmentStart(_, _)
SegmentStart(t, i) ==
    IF i = 1 THEN 0
    ELSE SegmentStart(t, i - 1) + Len(Segments(t)[i - 1]) + 1

(***************************************************************************)
(* C15: for every token lex emits the recorded column is the number of     *)
(* input characters before the first character of its segment, the row is  *)
(* 0 and the file is "main.rs"; columns do not decrease along the tokens.  *)
(* The column a token records is `start`, set when the previous segment    *)
(* ended, so while lex reads a segment `start` is that segment's offset.   *)
(* Fails: past 65535 characters the u16 counter wraps (C16).               *)
(***************************************************************************)
TokenPositions ==
    LexRan =>
        /\ pc = "lex" => start = SegmentStart(text, Len(tokens) + 1)
        /\ \A i \in 1..Len(tokens) :
              /\ tokens[i].position.col = SegmentStart(text, i)
              /\ tokens[i].position.row = 0
              /\ tokens[i].position.file = "main.rs"
        /\ \A i \in 1..(Len(tokens) - 1) :
              tokens[i].position.col <= tokens[i + 1].position.col

(***************************************************************************)
(* C16: the column counter never overflows: for a text of any length lex   *)
(* is not stopped by the counter, the counter is the number of characters  *)
(* read, and every recorded column is the true offset, not a value wrapped *)
(* modulo 2^16.                                                            *)
(* Fails: the 65536th character overflows the u16.                         *)
(***************************************************************************)
\* lex stopped by the addition, not by determine_kind
OverflowAbort ==
    pc = "lex_panic" /\ (Len(call) = 0 \/ call[1].kind # "PANIC")

ColumnNeverOverflows ==
    LexRan =>
        /\ ~OverflowAbort
        /\ col = pos
        /\ start <= col
        /\ \A i \in 1..Len(tokens) : tokens[i].position.col < pos

(***************************************************************************)
(* C17: every sequence lex returns has at least one token, so parse run on *)
(* the output of lex never computes length - 1 on an empty sequence; parse *)
(* called on an empty sequence does not return a mapping.                  *)
(***************************************************************************)
ParseNeverGetsEmptyFromLex ==
    /\ LexReturned => Len(tokens) >= 1
    /\ LexRan => ~(pc = "parse_panic" /\ Len(tokens) = 0)
    /\ (~LexRan /\ Len(tokens) = 0) => pc \in {"parse", "parse_panic"} /\ hash = EmptyMap

ParseNeverGetsEmptyFromLexWitness ==
    /\ LexReturned
    /\ Len(tokens) = 1
    /\ pc = "done"

====
